---- MODULE Spec2Model ----
(***************************************************************************)
(* Model of Docs/doc_diff.py: the documentation consistency check.         *)
(*                                                                         *)
(* Strings are sequences of one-character strings, so that the string      *)
(* operations of the script (split, replace, join, lower, %-formatting,    *)
(* os.path.dirname) are computed as the script computes them.  The file    *)
(* system is a set of directory paths and a function from file paths to    *)
(* [content, mtime] records.                                               *)
(***************************************************************************)
EXTENDS Integers, Sequences, FiniteSets, TLC

VARIABLES
    pc,           \* position: start, locate, loop, compare, returned, done, aborted; call, called, raised
    doc_dirs,     \* the topic directories (sys.argv[1::] or the default)
    listing,      \* os.listdir order of each existing topic directory
    dirs,         \* directories that exist on disk
    files,        \* regular files on disk: path -> [content, mtime]
    now,          \* the file system clock
    ref_files,    \* result of get_generated_docs
    mod_files,    \* result of get_generated_docs
    classes,      \* result of get_generated_docs
    idx,          \* position of the for loop of run (1-based)
    err,          \* the aggregate mismatch flag of run
    ret,          \* value returned by the last call (make_report or run)
    exit_status,  \* exit status of the process, -1 while it runs
    args,         \* arguments of a direct call of make_report
    library,      \* the imported namespace: resolvable class -> markdown of fmt.format_class
    dirs0,        \* history: directories at process start
    files0,       \* history: files at process start
    trace,        \* history: build/compare events of run, in order
    written       \* history: report files written by make_report, in order

vars == <<pc, doc_dirs, listing, dirs, files, now, ref_files, mod_files, classes,
          idx, err, ret, exit_status, args, library, dirs0, files0, trace, written>>

\* ------------------------------------------------------------------ bounds
\* most documents discovered in one run
MaxDocs == 2

\* ------------------------------------------------------------- string ops
build_dir == <<"t", "e", "m", "p">>
report_dir == <<"r", "e", "p", "o", "r", "t">>
netket == <<"n", "e", "t", "k", "e", "t">>
DotHtml == <<".", "h", "t", "m", "l">>

\* index of the first occurrence of c in s, 0 when absent
IndexOf(s, c) ==
    IF \E k \in 1..Len(s) : s[k] = c
    THEN CHOOSE k \in 1..Len(s) : s[k] = c /\ \A j \in 1..(k - 1) : s[j] # c
    ELSE 0

\* index of the last occurrence of c in s, 0 when absent
RIndexOf(s, c) ==
    IF \E k \in 1..Len(s) : s[k] = c
    THEN CHOOSE k \in 1..Len(s) : s[k] = c /\ \A j \in (k + 1)..Len(s) : s[j] # c
    ELSE 0

\* str.split(c)
RECURSIVE Split(_, _)
Split(s, c) ==
    LET k == IndexOf(s, c) IN
    IF k = 0 THEN <<s>>
    ELSE <<SubSeq(s, 1, k - 1)>> \o Split(SubSeq(s, k + 1, Len(s)), c)

\* c.join(parts)
RECURSIVE Join(_, _)
Join(parts, c) ==
    IF Len(parts) = 0 THEN <<>>
    ELSE IF Len(parts) = 1 THEN parts[1]
    ELSE parts[1] \o <<c>> \o Join(Tail(parts), c)

\* str.replace(a, b) for one-character a and b
Replace(s, a, b) == [k \in 1..Len(s) |-> IF s[k] = a THEN b ELSE s[k]]

LowerChar(ch) ==
    CASE ch = "G" -> "g"
      [] ch = "F" -> "f"
      [] ch = "B" -> "b"
      [] OTHER -> ch

\* str.lower()
Lower(s) == [k \in 1..Len(s) |-> LowerChar(s[k])]

\* '%s/%s' % (a, b)
Slash(a, b) == a \o <<"/">> \o b

\* strip trailing slashes
RECURSIVE RStripSlash(_)
RStripSlash(s) ==
    IF Len(s) > 0 /\ s[Len(s)] = "/" THEN RStripSlash(SubSeq(s, 1, Len(s) - 1)) ELSE s

\* os.path.dirname
Dirname(p) ==
    LET head == SubSeq(p, 1, RIndexOf(p, "/")) IN
    IF Len(head) > 0 /\ \E k \in 1..Len(head) : head[k] # "/"
    THEN RStripSlash(head) ELSE head

\* ------------------------------------------------------------ file system
\* os.path.isdir; the empty path stands for the working directory
IsDir(D, p) == p \in D

\* os.mkdir can be carried out: the parent exists and nothing is at p
CanMkdir(D, F, p) ==
    /\ Len(p) > 0
    /\ p \notin D
    /\ p \notin DOMAIN F
    /\ (Dirname(p) = <<>> \/ Dirname(p) \in D)

\* init_dir(new_dir): ok is FALSE when os.mkdir raises
init_dir(D, F, new_dir) ==
    IF IsDir(D, new_dir) THEN [ok |-> TRUE, dirs |-> D]
    ELSE IF CanMkdir(D, F, new_dir) THEN [ok |-> TRUE, dirs |-> D \cup {new_dir}]
    ELSE [ok |-> FALSE, dirs |-> D]

\* open(path, 'w') can be carried out
CanWrite(D, p) ==
    /\ p \notin D
    /\ (Dirname(p) = <<>> \/ Dirname(p) \in D)

\* open(path, 'w').write(text) at clock value t
WriteFile(F, p, text, t) ==
    [q \in (DOMAIN F) \cup {p} |->
        IF q = p THEN [content |-> text, mtime |-> t] ELSE F[q]]

\* s starts with prefix
StartsWith(s, prefix) ==
    Len(s) >= Len(prefix) /\ SubSeq(s, 1, Len(prefix)) = prefix

\* p is root or lies under it
Under(p, root) == p = root \/ StartsWith(p, root \o <<"/">>)

\* os.rmdir on every directory below root, the root itself left in place
RmtreeDirs_keep_root(D, root) == {p \in D : ~StartsWith(p, root \o <<"/">>)}

\* shutil.rmtree(root): what is left of the directories
RmtreeDirs(D, root) == {p \in D : ~Under(p, root)}

\* shutil.rmtree(root): what is left of the files
RmtreeFiles(F, root) == [p \in {q \in DOMAIN F : ~Under(q, root)} |-> F[p]]

\* ------------------------------------------------------------ filecmp.cmp
\* filecmp._sig(os.stat(p)): (type, size, mtime)
sig(D, F, p) ==
    IF p \in DOMAIN F THEN <<"S_IFREG", Len(F[p].content), F[p].mtime>>
    ELSE <<"S_IFDIR", 0, 0>>

\* filecmp._do_cmp: byte by byte
do_cmp(F, f1, f2) == F[f1].content = F[f2].content

\* a comparison of the stat signatures alone
cmp_signature_only(D, F, f1, f2) == sig(D, F, f1) = sig(D, F, f2)

\* filecmp.cmp(f1, f2) with its default shallow=True
cmp(D, F, f1, f2) ==
    LET s1 == sig(D, F, f1)
        s2 == sig(D, F, f2)
    IN  IF s1[1] # "S_IFREG" \/ s2[1] # "S_IFREG" THEN FALSE
        ELSE IF s1 = s2 THEN TRUE
        ELSE IF s1[2] # s2[2] THEN FALSE
        ELSE do_cmp(F, f1, f2)

\* ------------------------------------------------------------ the script
\* the class identifier without doc_dir.lower()
class_of_no_lower(doc_dir, file_) ==
    netket \o <<".">> \o doc_dir \o <<".">> \o Split(file_, ".")[1]

\* the class identifier built by get_generated_docs for entry file_ of doc_dir
class_of(doc_dir, file_) ==
    netket \o <<".">> \o Lower(doc_dir) \o <<".">> \o Split(file_, ".")[1]

\* get_generated_docs that names every class after its directory alone
RECURSIVE get_generated_docs_no_stem(_, _)
get_generated_docs_no_stem(ddirs, L) ==
    IF Len(ddirs) = 0
    THEN [ref_files |-> <<>>, mod_files |-> <<>>, classes |-> <<>>]
    ELSE LET doc_dir == Head(ddirs)
             tmp == L[doc_dir]
             rest == get_generated_docs_no_stem(Tail(ddirs), L)
         IN  [ref_files |-> [k \in 1..Len(tmp) |-> Slash(doc_dir, tmp[k])]
                              \o rest.ref_files,
              mod_files |-> [k \in 1..Len(tmp) |-> Slash(Slash(build_dir, doc_dir), tmp[k])]
                              \o rest.mod_files,
              classes |-> [k \in 1..Len(tmp) |-> netket \o <<".">> \o Lower(doc_dir)]
                              \o rest.classes]

\* get_generated_docs(): the three lists, from the listing L of the directories
RECURSIVE get_generated_docs(_, _)
get_generated_docs(ddirs, L) ==
    IF Len(ddirs) = 0
    THEN [ref_files |-> <<>>, mod_files |-> <<>>, classes |-> <<>>]
    ELSE LET doc_dir == Head(ddirs)
             tmp == L[doc_dir]
             rest == get_generated_docs(Tail(ddirs), L)
         IN  [ref_files |-> [k \in 1..Len(tmp) |-> Slash(doc_dir, tmp[k])]
                              \o rest.ref_files,
              mod_files |-> [k \in 1..Len(tmp) |-> Slash(Slash(build_dir, doc_dir), tmp[k])]
                              \o rest.mod_files,
              classes |-> [k \in 1..Len(tmp) |-> class_of(doc_dir, tmp[k])]
                              \o rest.classes]

\* init_docs(build_dir, doc_dirs)
RECURSIVE init_doc_dirs(_, _, _, _)
init_doc_dirs(D, F, bdir, ddirs) ==
    IF Len(ddirs) = 0 THEN [ok |-> TRUE, dirs |-> D]
    ELSE LET r == init_dir(D, F, Slash(bdir, Head(ddirs))) IN
         IF r.ok THEN init_doc_dirs(r.dirs, F, bdir, Tail(ddirs)) ELSE r

init_docs(D, F, bdir, ddirs) ==
    LET r == init_dir(D, F, bdir) IN
    IF r.ok THEN init_doc_dirs(r.dirs, F, bdir, ddirs) ELSE r

\* difflib.HtmlDiff().make_file(fromlines, tolines): a document holding both sides
make_file(fromlines, tolines) ==
    <<"<html>">> \o Join(fromlines, "\n") \o <<"<>">> \o Join(tolines, "\n") \o <<"</html>">>

\* out_file with the netket segment left in the path
out_file_keep_namespace(rdir, class_name) ==
    Slash(rdir, Join(Split(Replace(class_name, ".", "/"), "/"), "/"))

\* out_file of make_report: report_dir joined with the class path minus its first segment
out_file(rdir, class_name) ==
    Slash(rdir, Join(Tail(Split(Replace(class_name, ".", "/"), "/")), "/"))

\* the value make_report returns, from the result of filecmp.cmp
report_flag(is_consistent) == is_consistent

\* make_report(ref_file, mod_file, class_name, report_dir) at clock value t.
\* raised: an exception left the function; out: the report written, <<>> if none
make_report(D, F, ref_file, mod_file, class_name, rdir, t) ==
    LET none == <<>>
        exc(DD) == [raised |-> TRUE, ret |-> FALSE, dirs |-> DD, files |-> F, out |-> none]
    IN
    IF ~(ref_file \in D \/ ref_file \in DOMAIN F) \/ ~(mod_file \in D \/ mod_file \in DOMAIN F)
    THEN exc(D)
    ELSE
    LET is_consistent == cmp(D, F, ref_file, mod_file) IN
    IF is_consistent
    THEN [raised |-> FALSE, ret |-> report_flag(is_consistent), dirs |-> D, files |-> F,
          out |-> none]
    ELSE
    LET r1 == init_dir(D, F, rdir) IN
    IF ~r1.ok THEN exc(D)
    ELSE IF ref_file \notin DOMAIN F \/ mod_file \notin DOMAIN F THEN exc(r1.dirs)
    ELSE
    LET fromlines == Split(F[ref_file].content, "\n")
        tolines == Split(F[mod_file].content, "\n")
        html == make_file(fromlines, tolines)
        of == out_file(rdir, class_name)
        out_dir == Dirname(of)
        r2 == init_dir(r1.dirs, F, out_dir)
    IN
    IF ~r2.ok THEN exc(r1.dirs)
    ELSE IF ~CanWrite(r2.dirs, of \o DotHtml) THEN exc(r2.dirs)
    ELSE [raised |-> FALSE, ret |-> report_flag(is_consistent), dirs |-> r2.dirs,
          files |-> WriteFile(F, of \o DotHtml, html, t), out |-> of \o DotHtml]

\* sys.exit(value) for a bool: the exit status of the process
sys_exit(value) == IF value THEN 1 ELSE 0

\* number of iterations of zip(ref_files, mod_files, classes)
Min2(a, b) == IF a <= b THEN a ELSE b
ZipLen == Min2(Len(ref_files), Min2(Len(mod_files), Len(classes)))

\* ------------------------------------------------------------ input sets
Topics == {<<"G">>, <<"g">>}

FileNames == {<<"F", ".", "m">>, <<"F", ".", "v", ".", "m">>, <<"B", ".", "m">>}

\* file contents: two of the same size and one of two lines
Contents == {<<"a">>, <<"b">>, <<"a", "\n", "b">>}

\* contents of the documents of a run
RunContents == {<<"a">>, <<"b">>}

\* ticks of the file system clock
Ticks == {0, 1}

\* command lines: no argument list longer than two directories
DocDirArgs ==
    {<<>>} \cup {<<a>> : a \in Topics} \cup {<<a, b>> : a \in Topics, b \in Topics}

Range(s) == {s[k] : k \in 1..Len(s)}

\* the orders in which os.listdir may list a directory of distinct entries
Listings ==
    {s \in UNION {[1..n -> FileNames] : n \in 0..Cardinality(FileNames)} :
        \A j \in 1..Len(s), k \in 1..Len(s) : s[j] = s[k] => j = k}

\* documents a run over ddirs will discover
RECURSIVE DocCount(_, _)
DocCount(ddirs, L) ==
    IF Len(ddirs) = 0 THEN 0
    ELSE (IF Head(ddirs) \in DOMAIN L THEN Len(L[Head(ddirs)]) ELSE 0)
         + DocCount(Tail(ddirs), L)

\* the reference documents of the listed directories
RefPaths(L) == UNION {{Slash(d, f) : f \in Range(L[d])} : d \in DOMAIN L}

UsedClasses(L) == UNION {{class_of(d, f) : f \in Range(L[d])} : d \in DOMAIN L}

JunkFile == Slash(build_dir, <<"x">>)

NoArgs == [ref_file |-> <<>>, mod_file |-> <<>>, class_name |-> <<>>, report_dir |-> <<>>]

\* a run of the script: python3 doc_diff.py doc_dirs
InitRun ==
    \E dd \in DocDirArgs, pre \in BOOLEAN :
    \E S \in SUBSET Range(dd) :
    \E L \in [S -> Listings] :
    \E lib \in UNION {[C -> RunContents] : C \in SUBSET UsedClasses(L)} :
    \E RC \in [RefPaths(L) -> RunContents] :
        /\ DocCount(dd, L) <= MaxDocs
        /\ pc = "start"
        /\ doc_dirs = dd
        /\ listing = L
        /\ library = lib
        /\ dirs = S \cup (IF pre THEN {build_dir} ELSE {})
        /\ files = [p \in (DOMAIN RC) \cup (IF pre THEN {JunkFile} ELSE {}) |->
                      IF p \in DOMAIN RC THEN [content |-> RC[p], mtime |-> 0]
                      ELSE [content |-> <<"x">>, mtime |-> 0]]
        /\ now = 0
        /\ args = NoArgs

UnitRef == <<"G", "/", "F", ".", "m">>
UnitMod == Slash(build_dir, UnitRef)

\* class identifiers passed to make_report directly: those of the locator and
\* identifiers of one, two and four segments
UnitClasses ==
    {class_of(d, f) : d \in Topics, f \in FileNames}
    \cup {netket, netket \o <<".", "F">>, netket \o <<".", "g", ".", "h", ".", "F">>}

\* a direct call make_report(ref_file, mod_file, class_name, report_dir)
InitCall ==
    \E c1 \in Contents, c2 \in Contents, t1 \in Ticks, t2 \in Ticks :
    \E cls \in UnitClasses :
    \E R \in {{}, {report_dir}, {report_dir, Slash(report_dir, <<"g">>)}} :
        /\ pc = "call"
        /\ doc_dirs = <<>>
        /\ listing = <<>>
        /\ library = <<>>
        /\ dirs = {<<"G">>, build_dir, Slash(build_dir, <<"G">>)} \cup R
        /\ files = [p \in {UnitRef, UnitMod} |->
                      IF p = UnitRef THEN [content |-> c1, mtime |-> t1]
                      ELSE [content |-> c2, mtime |-> t2]]
        /\ now \in Ticks
        /\ args = [ref_file |-> UnitRef, mod_file |-> UnitMod, class_name |-> cls,
                   report_dir |-> report_dir]

Init ==
    /\ InitRun \/ InitCall
    /\ ref_files = <<>>
    /\ mod_files = <<>>
    /\ classes = <<>>
    /\ idx = 1
    /\ err = FALSE
    /\ ret = FALSE
    /\ exit_status = -1
    /\ dirs0 = dirs
    /\ files0 = files
    /\ trace = <<>>
    /\ written = <<>>

\* ------------------------------------------------------------ actions
\* an exception that ends the process with exit status 0
Uncaught_exit_zero ==
    /\ pc' = "aborted"
    /\ exit_status' = 0

\* an exception nobody catches: traceback, exit status 1, nothing else happens
Uncaught ==
    /\ pc' = "aborted"
    /\ exit_status' = 1

\* run, line 128: init_docs(build_dir, doc_dirs)
InitDocs ==
    /\ pc = "start"
    /\ LET r == init_docs(dirs, files, build_dir, doc_dirs) IN
         /\ dirs' = r.dirs
         /\ IF r.ok THEN pc' = "locate" /\ exit_status' = exit_status ELSE Uncaught
    /\ UNCHANGED <<doc_dirs, listing, files, now, ref_files, mod_files, classes, idx,
                   err, ret, args, library, dirs0, files0, trace, written>>

\* run, line 129: get_generated_docs(); os.listdir raises for a missing directory
GetGeneratedDocs ==
    /\ pc = "locate"
    /\ IF \A k \in 1..Len(doc_dirs) : doc_dirs[k] \in DOMAIN listing
       THEN LET g == get_generated_docs(doc_dirs, listing) IN
              /\ ref_files' = g.ref_files
              /\ mod_files' = g.mod_files
              /\ classes' = g.classes
              /\ pc' = "loop"
              /\ exit_status' = exit_status
       ELSE /\ Uncaught
            /\ UNCHANGED <<ref_files, mod_files, classes>>
    /\ idx' = 1
    /\ err' = FALSE
    /\ UNCHANGED <<doc_dirs, listing, dirs, files, now, ret, args, library,
                   dirs0, files0, trace, written>>

\* the state after build(class_name, output_name) at clock value t
build(D, F, lib, class_name, output_name, t) ==
    IF class_name \notin DOMAIN lib THEN [raised |-> TRUE, files |-> F]
    ELSE IF ~CanWrite(D, output_name) THEN [raised |-> TRUE, files |-> F]
    ELSE [raised |-> FALSE, files |-> WriteFile(F, output_name, lib[class_name], t)]

Event(op, k, bad, differs) == [op |-> op, doc |-> k, bad |-> bad, differs |-> differs]

\* run, line 132: build(class_name, mod_file) for the document at idx
Build ==
    /\ pc = "loop"
    /\ idx <= ZipLen
    /\ \E t \in {u \in Ticks : u >= now} :
         LET b == build(dirs, files, library, classes[idx], mod_files[idx], t) IN
           /\ now' = t
           /\ files' = b.files
           /\ IF b.raised
              THEN Uncaught /\ trace' = trace
              ELSE /\ pc' = "compare"
                   /\ exit_status' = exit_status
                   /\ trace' = Append(trace, Event("build", idx, FALSE, FALSE))
    /\ UNCHANGED <<doc_dirs, listing, dirs, ref_files, mod_files, classes, idx, err, ret,
                   args, library, dirs0, files0, written>>

\* the flag overwritten by every comparison: err = not is_consistent
next_err_overwrite(e, is_consistent) == ~is_consistent

\* the aggregate flag after one comparison (run, lines 134-135)
next_err(e, is_consistent) == IF ~is_consistent THEN TRUE ELSE e

\* run, lines 133-135: make_report for the document at idx, then the flag
Compare ==
    /\ pc = "compare"
    /\ LET m == make_report(dirs, files, ref_files[idx], mod_files[idx], classes[idx],
                            report_dir, now)
       IN  /\ dirs' = m.dirs
           /\ files' = m.files
           /\ IF m.raised
              THEN Uncaught /\ UNCHANGED <<idx, err, ret, trace, written>>
              ELSE /\ ret' = m.ret
                   /\ err' = next_err(err, m.ret)
                   /\ idx' = idx + 1
                   /\ pc' = "loop"
                   /\ exit_status' = exit_status
                   /\ trace' = Append(trace, Event("compare", idx, ~m.ret,
                          files[ref_files[idx]].content # files[mod_files[idx]].content))
                   /\ written' = IF m.out # <<>> THEN Append(written, m.out) ELSE written
    /\ UNCHANGED <<doc_dirs, listing, now, ref_files, mod_files, classes, args, library,
                   dirs0, files0>>

\* run, lines 138-140: shutil.rmtree(build_dir); return err
Cleanup ==
    /\ pc = "loop"
    /\ idx > ZipLen
    /\ IF build_dir \in dirs
       THEN /\ dirs' = RmtreeDirs(dirs, build_dir)
            /\ files' = RmtreeFiles(files, build_dir)
            /\ ret' = err
            /\ pc' = "returned"
            /\ exit_status' = exit_status
       ELSE Uncaught /\ UNCHANGED <<dirs, files, ret>>
    /\ UNCHANGED <<doc_dirs, listing, now, ref_files, mod_files, classes, idx, err,
                   args, library, dirs0, files0, trace, written>>

\* line 145: sys.exit(run(build_dir, doc_dirs, report_dir))
SysExit ==
    /\ pc = "returned"
    /\ exit_status' = sys_exit(ret)
    /\ pc' = "done"
    /\ UNCHANGED <<doc_dirs, listing, dirs, files, now, ref_files, mod_files, classes,
                   idx, err, ret, args, library, dirs0, files0, trace, written>>

\* make_report called on its own with args
Call ==
    /\ pc = "call"
    /\ LET m == make_report(dirs, files, args.ref_file, args.mod_file, args.class_name,
                            args.report_dir, now)
       IN  /\ dirs' = m.dirs
           /\ files' = m.files
           /\ ret' = m.ret
           /\ pc' = IF m.raised THEN "raised" ELSE "called"
           /\ written' = IF m.out # <<>> THEN Append(written, m.out) ELSE written
    /\ UNCHANGED <<doc_dirs, listing, now, ref_files, mod_files, classes, idx, err,
                   exit_status, args, library, dirs0, files0, trace>>

Next == InitDocs \/ GetGeneratedDocs \/ Build \/ Compare \/ Cleanup \/ SysExit \/ Call

Spec == Init /\ [][Next]_vars

\* ------------------------------------------------------------ properties
RunOver == pc \in {"returned", "done"}

\* positions of the comparisons in the history of the run
Compared == {k \in 1..Len(trace) : trace[k].op = "compare"}

\* positions of the comparisons that make_report found inconsistent
Mismatched == {k \in Compared : trace[k].bad}

Lines(text) == Split(text, "\n")

\* the two files handed to a direct call of make_report differ in some line
CallDiffers == Lines(files0[args.ref_file].content) # Lines(files0[args.mod_file].content)

\* <report_root>/s1/.../sn.html for the class identifier s0.s1...sn
ReportPath(rdir, class_name) ==
    Join(<<rdir>> \o Tail(Split(class_name, ".")), "/") \o DotHtml

\* os.path.splitext(f)[0]: f minus its extension
MinusExtension(f) ==
    LET k == RIndexOf(f, ".") IN IF k <= 1 THEN f ELSE SubSeq(f, 1, k - 1)

\* the text of f before its first dot
BeforeFirstDot(f) ==
    LET k == IndexOf(f, ".") IN IF k = 0 THEN f ELSE SubSeq(f, 1, k - 1)

\* times the directory d is named on the command line
Occurrences(d) == Cardinality({k \in 1..Len(doc_dirs) : doc_dirs[k] = d})

\* C1: a run that reaches the end of run() exits nonzero exactly when some
\* comparison was inconsistent, and exits zero only if every discovered
\* document matched its reference exactly.
C1_ExitStatus ==
    pc = "done" =>
        /\ (exit_status # 0) <=> (Mismatched # {})
        /\ exit_status = 0 => \A k \in Compared : ~trace[k].differs

\* C2: two files that differ in at least one line, whatever their sizes and
\* modification times, are reported inconsistent by make_report, which writes
\* exactly one report, at the path derived from the class identifier.
C2_DifferentReported ==
    (pc = "called" /\ CallDiffers) =>
        /\ ret = FALSE
        /\ written = <<out_file(args.report_dir, args.class_name) \o DotHtml>>

\* C3: without an inconsistent comparison nothing is reported: make_report on
\* identical files returns consistent and leaves the disk as it was, and a run
\* in which every discovered document matches returns no mismatch, writes no
\* report and creates no report directory.
C3_NoReportWhenConsistent ==
    /\ (pc \in {"called", "raised"} /\ ~CallDiffers) =>
          /\ pc = "called"
          /\ ret = TRUE
          /\ dirs = dirs0
          /\ files = files0
          /\ written = <<>>
    /\ (RunOver /\ \A k \in Compared : ~trace[k].differs) =>
          /\ ret = FALSE
          /\ written = <<>>
          /\ report_dir \notin dirs0 => report_dir \notin dirs
          /\ \A p \in DOMAIN files : ~Under(p, report_dir)

C3_Witness ==
    /\ pc = "done"
    /\ Len(classes) = 2
    /\ Cardinality(Compared) = 2
    /\ \A k \in Compared : ~trace[k].differs
    /\ now = 1

\* C4: once run() has returned, the scratch root and everything under it are
\* gone, with or without mismatches and whatever else lay under the root.
C4_ScratchRemoved ==
    RunOver =>
        /\ build_dir \notin dirs
        /\ \A p \in dirs \cup DOMAIN files : ~Under(p, build_dir)

C4_Witness ==
    /\ pc = "returned"
    /\ JunkFile \in DOMAIN files0
    /\ ret = TRUE
    /\ Len(classes) = 2

\* C5: on a mismatch the report of class s0.s1...sn is <report_root>/s1/.../sn.html;
\* for an identifier of the locator the report root and <report_root>/<topic>
\* are created when missing and the write succeeds.
C5_ReportPath ==
    /\ (pc = "called" /\ ret = FALSE /\ Len(Split(args.class_name, ".")) >= 2) =>
          /\ written = <<ReportPath(args.report_dir, args.class_name)>>
          /\ ReportPath(args.report_dir, args.class_name) \in DOMAIN files
    /\ \A d \in Topics, f \in FileNames :
          (/\ pc \in {"called", "raised"}
           /\ args.class_name = class_of(d, f)
           /\ ~cmp(dirs0, files0, args.ref_file, args.mod_file)) =>
              /\ pc = "called"
              /\ args.report_dir \in dirs
              /\ Slash(args.report_dir, Lower(d)) \in dirs
              /\ Slash(Slash(args.report_dir, Lower(d)), BeforeFirstDot(f)) \o DotHtml
                    \in DOMAIN files

C5_Witness ==
    /\ pc = "called"
    /\ ret = FALSE
    /\ report_dir \notin dirs0
    /\ args.class_name = class_of(<<"G">>, <<"F", ".", "m">>)
    /\ written # <<>>

\* C6: the flag make_report returns is True if an inconsistency between the
\* two files is encountered and False when they are consistent.
C6_FlagMeansInconsistent ==
    pc = "called" => (ret = TRUE <=> ~cmp(dirs0, files0, args.ref_file, args.mod_file))

\* the entry i of the three lists describes entry f of directory d
Describes(i, d, f, stem) ==
    /\ ref_files[i] = Slash(d, f)
    /\ mod_files[i] = Slash(Slash(build_dir, d), f)
    /\ classes[i] = netket \o <<".">> \o Lower(d) \o <<".">> \o stem

\* get_generated_docs has just returned its three lists, which run never changes
Located == pc = "loop" /\ Len(trace) = 0

\* C7 as stated: the three lists have one length, entry i of each describes
\* the same entry f of the same directory d with the class netket.<d lower-cased>.
\* <f minus its extension>, and every entry of every configured directory
\* appears exactly once.
C7_Original ==
    Located =>
        /\ Len(ref_files) = Len(mod_files) /\ Len(mod_files) = Len(classes)
        /\ \A i \in 1..Len(ref_files) :
              \E d \in Range(doc_dirs) : \E f \in Range(listing[d]) :
                  Describes(i, d, f, MinusExtension(f))
        /\ \A d \in Range(doc_dirs) : \A f \in Range(listing[d]) :
              Cardinality({i \in 1..Len(ref_files) : ref_files[i] = Slash(d, f)}) = 1

\* C7 amended: as C7, but the last segment of the class is the text of f before
\* its first dot, and an entry appears once for every time its directory is
\* named in the configured list.
C7_Lockstep ==
    Located =>
        /\ Len(ref_files) = Len(mod_files) /\ Len(mod_files) = Len(classes)
        /\ \A i \in 1..Len(ref_files) :
              \E d \in Range(doc_dirs) : \E f \in Range(listing[d]) :
                  Describes(i, d, f, BeforeFirstDot(f))
        /\ \A d \in Range(doc_dirs) : \A f \in Range(listing[d]) :
              Cardinality({i \in 1..Len(ref_files) : ref_files[i] = Slash(d, f)})
                  = Occurrences(d)

C7_Witness ==
    /\ pc = "loop"
    /\ Len(classes) = 2
    /\ doc_dirs = <<<<"G">>>>
    /\ ref_files[1] = Slash(<<"G">>, <<"F", ".", "v", ".", "m">>)

\* the history of the run is build 1, compare 1, build 2, compare 2, ...
InOrder ==
    \A k \in 1..Len(trace) :
        /\ trace[k].doc = (k + 1) \div 2
        /\ trace[k].op = IF k % 2 = 1 THEN "build" ELSE "compare"

C8_Inv ==
    /\ InOrder
    /\ pc \in {"loop", "compare", "returned", "done"} => (err <=> Mismatched # {})
    /\ pc = "start" => ~err
    /\ pc = "loop" => Len(trace) = 2 * (idx - 1)
    /\ pc = "compare" => Len(trace) = 2 * idx - 1
    /\ RunOver =>
          /\ Len(trace) = 2 * Len(classes)
          /\ ret <=> Mismatched # {}

\* C8: a mismatch never stops the run: every discovered document is built and
\* then compared, once and in discovery order, one document after the other;
\* the aggregate flag starts False, is True from the first inconsistent
\* comparison on, is never reset, and at cleanup is the disjunction of the
\* inconsistencies.
C8_RunToCompletion == [](C8_Inv) /\ [][err => err']_vars

C8_Witness ==
    /\ pc = "done"
    /\ Len(trace) = 4
    /\ trace[2].bad
    /\ ~trace[4].bad
    /\ exit_status = 1

\* C9: a fatal error ends the run where it is raised: nothing more is built or
\* compared, cleanup does not happen, so the scratch root, the candidate files
\* written so far and the reports written so far are still on disk, and the
\* exit status is nonzero.
C9_AbortLeavesScratch ==
    pc = "aborted" =>
        /\ ~ENABLED Next
        /\ exit_status # 0
        /\ build_dir \in dirs
        /\ \A k \in 1..Len(trace) :
              trace[k].op = "build" => mod_files[trace[k].doc] \in DOMAIN files
        /\ \A k \in 1..Len(written) : written[k] \in DOMAIN files
        /\ \A k \in 1..Len(trace) : trace[k].doc <= idx

C9_Witness ==
    /\ pc = "aborted"
    /\ idx = 2
    /\ Len(trace) = 2
    /\ Len(written) = 1
    /\ mod_files[1] \in DOMAIN files

\* the directory and the entry a reference path names
TopicOf(ref) == Split(ref, "/")[1]
EntryOf(ref) == Split(ref, "/")[2]

\* C10 as stated: distinct documents have distinct class identifiers and
\* distinct report paths, so after a run without fatal error there are as many
\* report files as documents found inconsistent.
C10_Original ==
    /\ Located =>
          \A i \in 1..Len(ref_files), j \in 1..Len(ref_files) :
              ref_files[i] # ref_files[j] =>
                  /\ classes[i] # classes[j]
                  /\ out_file(report_dir, classes[i]) # out_file(report_dir, classes[j])
    /\ RunOver => Cardinality(Range(written)) = Cardinality(Mismatched)

\* C10 amended: documents that differ in the lower-cased directory name or in
\* the entry name before its first dot have distinct class identifiers and
\* distinct report paths, and after a run without fatal error there are as many
\* report files as distinct class identifiers among the documents found
\* inconsistent.
C10_DistinctReports ==
    /\ Located =>
          \A i \in 1..Len(ref_files), j \in 1..Len(ref_files) :
              (\/ Lower(TopicOf(ref_files[i])) # Lower(TopicOf(ref_files[j]))
               \/ BeforeFirstDot(EntryOf(ref_files[i])) # BeforeFirstDot(EntryOf(ref_files[j])))
              => /\ classes[i] # classes[j]
                 /\ out_file(report_dir, classes[i]) # out_file(report_dir, classes[j])
    /\ RunOver =>
          /\ Cardinality(Range(written)) = Cardinality({classes[trace[k].doc] : k \in Mismatched})
          /\ \A k \in 1..Len(written) : written[k] \in DOMAIN files

C10_Witness ==
    /\ pc = "done"
    /\ Len(written) = 2
    /\ written[1] # written[2]

====
